---- MODULE Spec2Model ----
(***************************************************************************)
(* Model of mongodb-type-assist: the value classifier (From<Bson>), the    *)
(* type lattice (TypeScriptType::merge, FromIterator), the per-document    *)
(* fold (process_document) and the per-collection workers started by       *)
(* parse_collections.                                                      *)
(*                                                                         *)
(* A TypeScriptType is a record [tag, elems, fields]: elems is the member  *)
(* set of a Union or the singleton element type of an Array; fields is the *)
(* BTreeMap of an Object, kept as a set of [k, t] entries with unique k.   *)
(* A Bson value is a record [kind, array, document]; a Document is the     *)
(* ordered sequence of its <<name, value>> entries.                        *)
(***************************************************************************)
EXTENDS Naturals, Sequences, FiniteSets

VARIABLES config, db, pc, collection_fields, documents, doc_idx, field_idx,
          orig_field_names, new_types, held, before, set, operands, merged

\* config             CONFIG: mongodb_types and parse_field_as_map (main.rs:20)
\* db                 per collection, what find() returns and its cursor yields
\* pc                 per collection, where its worker is in parse_collections
\* collection_fields  per collection, the ObjectStruct inside the Mutex (process.rs:26)
\* documents          per collection, the decoded and sorted Vec<Document>
\* doc_idx, field_idx the document being folded and the field being processed
\* orig_field_names   the snapshot of known field names (process.rs:61)
\* new_types          the descriptor about to be inserted (process.rs:70, 95)
\* held               a MutexGuard of collection_fields is alive
\* before             collection_fields as it was when the snapshot was taken
\* set                the entries collected into CollectionStruct (process.rs:47)
\* operands, merged   three descriptors and the results of merging them

\* The operands and results of the type lattice exercised on its own.
lattice == <<operands, merged>>

vars == <<config, db, pc, collection_fields, documents, doc_idx, field_idx,
          orig_field_names, new_types, held, before, set, lattice>>

(* ------------------------------ bounds --------------------------------- *)

\* Records (decodable or not) held by the whole database.
MaxDocs == 3

(* --------------------------- BTreeMap helpers -------------------------- *)

Keys(m) == {e.k : e \in m}

Get(m, k) == (CHOOSE e \in m : e.k = k).t

\* An insert that loses every other entry of the map (a lost update).
Insert_loses_entries(m, k, t) == {[k |-> k, t |-> t]}

Insert(m, k, t) == {e \in m : e.k # k} \cup {[k |-> k, t |-> t]}

(* --------------------------- TypeScriptType ---------------------------- *)

Scalar(tag) == [tag |-> tag, elems |-> {}, fields |-> {}]

Number == Scalar("Number")
BigInt == Scalar("BigInt")
Null == Scalar("Null")
String == Scalar("String")
Buffer == Scalar("Buffer")
Boolean == Scalar("Boolean")
Any == Scalar("Any")
ObjectId == Scalar("ObjectId")
Timestamp == Scalar("Timestamp")
DateTime == Scalar("DateTime")
MaxKey == Scalar("MaxKey")
MinKey == Scalar("MinKey")
Undefined == Scalar("Undefined")
Map == Scalar("Map")

Array(t) == [tag |-> "Array", elems |-> {t}, fields |-> {}]

Object(m) == [tag |-> "Object", elems |-> {}, fields |-> m]

Union(s) == [tag |-> "Union", elems |-> s, fields |-> {}]

\* merge that forgets `self` when only `other` is a Union.
merge_drops_self(self, other) ==
    LET s == CASE self.tag = "Union" /\ other.tag = "Union" -> self.elems \cup other.elems
               [] self.tag = "Union" /\ other.tag # "Union" -> self.elems \cup {other}
               [] self.tag # "Union" /\ other.tag = "Union" -> other.elems
               [] OTHER -> {self, other}
    IN  IF Cardinality(s) = 0 THEN Undefined
        ELSE IF Cardinality(s) = 1 THEN CHOOSE x \in s : TRUE
        ELSE Union(s)

\* merge that wraps a single alternative in a Union instead of collapsing it.
merge_no_collapse(self, other) ==
    LET s == CASE self.tag = "Union" /\ other.tag = "Union" -> self.elems \cup other.elems
               [] self.tag = "Union" /\ other.tag # "Union" -> self.elems \cup {other}
               [] self.tag # "Union" /\ other.tag = "Union" -> other.elems \cup {self}
               [] OTHER -> {self, other}
    IN  IF Cardinality(s) = 0 THEN Undefined ELSE Union(s)

\* merge that never flattens: both operands become members as they are.
merge_no_flatten(self, other) ==
    LET s == {self, other}
    IN  IF Cardinality(s) = 1 THEN CHOOSE x \in s : TRUE ELSE Union(s)

\* merge that overwrites the stored descriptor with the new one.
merge_overwrites(self, other) == other

\* TypeScriptType::merge: the alternatives of both operands, collapsed.
merge(self, other) ==
    LET s == CASE self.tag = "Union" /\ other.tag = "Union" -> self.elems \cup other.elems
               [] self.tag = "Union" /\ other.tag # "Union" -> self.elems \cup {other}
               [] self.tag # "Union" /\ other.tag = "Union" -> other.elems \cup {self}
               [] OTHER -> {self, other}
    IN  IF Cardinality(s) = 0 THEN Undefined
        ELSE IF Cardinality(s) = 1 THEN CHOOSE x \in s : TRUE
        ELSE Union(s)

\* FromIterator<Self>: the items collected into a BTreeSet, collapsed.
from_iter(items) ==
    LET s == {items[i] : i \in DOMAIN items}
    IN  IF Cardinality(s) = 0 THEN Undefined
        ELSE IF Cardinality(s) = 1 THEN CHOOSE x \in s : TRUE
        ELSE Union(s)

(* ------------------------------- Bson ---------------------------------- *)

Bson(kind) == [kind |-> kind, array |-> <<>>, document |-> <<>>]

BsonArray(items) == [kind |-> "Array", array |-> items, document |-> <<>>]

BsonDocument(entries) == [kind |-> "Document", array |-> <<>>, document |-> entries]

RECURSIVE from_keeps_undefined(_, _)
\* A classifier that gives Bson::Undefined the descriptor Undefined, not Any.
from_keeps_undefined(value, mongodb_types) ==
    CASE value.kind = "Array" ->
            Array(from_iter([i \in DOMAIN value.array |->
                                from_keeps_undefined(value.array[i], mongodb_types)]))
      [] value.kind = "Document" ->
            Object({[k |-> value.document[i][1],
                     t |-> from_keeps_undefined(value.document[i][2], mongodb_types)] :
                    i \in DOMAIN value.document})
      [] value.kind \in {"Double", "Int32"} -> Number
      [] value.kind \in {"Int64", "Decimal128"} -> BigInt
      [] value.kind \in {"String", "RegularExpression", "JavaScriptCode"} -> String
      [] value.kind = "Binary" -> Buffer
      [] value.kind = "Boolean" -> Boolean
      [] value.kind = "Null" -> Null
      [] value.kind = "Undefined" -> Undefined
      [] value.kind = "Timestamp" /\ mongodb_types -> Timestamp
      [] value.kind = "DateTime" /\ mongodb_types -> DateTime
      [] value.kind = "MaxKey" /\ mongodb_types -> MaxKey
      [] value.kind = "MinKey" /\ mongodb_types -> MinKey
      [] value.kind = "ObjectId" /\ mongodb_types -> ObjectId
      [] value.kind = "ObjectId" /\ ~mongodb_types -> String
      [] OTHER -> Any

RECURSIVE from(_, _)
\* From<Bson> for TypeScriptType, with CONFIG.mongodb_types as a parameter.
from(value, mongodb_types) ==
    CASE value.kind = "Array" ->
            Array(from_iter([i \in DOMAIN value.array |->
                                from(value.array[i], mongodb_types)]))
      [] value.kind = "Document" ->
            Object({[k |-> value.document[i][1],
                     t |-> from(value.document[i][2], mongodb_types)] :
                    i \in DOMAIN value.document})
      [] value.kind \in {"Double", "Int32"} -> Number
      [] value.kind \in {"Int64", "Decimal128"} -> BigInt
      [] value.kind \in {"String", "RegularExpression", "JavaScriptCode"} -> String
      [] value.kind = "Binary" -> Buffer
      [] value.kind = "Boolean" -> Boolean
      [] value.kind = "Null" -> Null
      [] value.kind = "Timestamp" /\ mongodb_types -> Timestamp
      [] value.kind = "DateTime" /\ mongodb_types -> DateTime
      [] value.kind = "MaxKey" /\ mongodb_types -> MaxKey
      [] value.kind = "MinKey" /\ mongodb_types -> MinKey
      [] value.kind = "ObjectId" /\ mongodb_types -> ObjectId
      [] value.kind = "ObjectId" /\ ~mongodb_types -> String
      [] OTHER -> Any

\* FieldStruct::convert: (field name, Bson) to (FieldName, TypeScriptType).
convert(field, mongodb_types) == <<field[1], from(field[2], mongodb_types)>>

\* ParseAsMap::new with its two arguments swapped.
ParseAsMap_swapped(collection, field) == <<field, collection>>

\* ParseAsMap::new: the (collection, field) pair looked up in the override list.
ParseAsMap(collection, field) == <<collection, field>>

(* ------------------------------ inputs --------------------------------- *)

\* The collection names handed to parse_collections.
Collections == {"users", "logs"}

\* Every field name of the documents below, in BTreeSet (lexicographic) order.
FieldOrder == <<"active", "age", "meta", "name", "tags">>

D1 == << <<"name", Bson("String")>>, <<"age", Bson("Int32")>> >>

D2 == << <<"name", Bson("String")>> >>

D3 == << <<"name", Bson("String")>>, <<"age", Bson("Int32")>>,
         <<"active", Bson("Boolean")>> >>

D4 == << <<"name", Bson("ObjectId")>>,
         <<"meta", BsonDocument(<< <<"k", Bson("Timestamp")>>,
                                   <<"t", BsonArray(<<>>)>> >>)>>,
         <<"tags", BsonArray(<<Bson("Int32"), Bson("String"), Bson("Double")>>)>> >>

DocPool == {D1, D2, D3, D4}

\* What the cursor yields for one record: a decoded Document or a decode error.
Results == {[ok |-> TRUE, doc |-> d] : d \in DocPool} \cup {[ok |-> FALSE, doc |-> <<>>]}

Streams(n) == UNION {[1..k -> Results] : k \in 0..n}

\* What find() returns for one collection: an error, or a cursor over at most n records.
FindResults(n) == {[ok |-> FALSE, cursor |-> <<>>]} \cup
                  {[ok |-> TRUE, cursor |-> s] : s \in Streams(n)}

Databases ==
    UNION {{[c \in Collections |-> IF c = "users" THEN u ELSE l] :
                l \in FindResults(MaxDocs - Len(u.cursor))} :
           u \in FindResults(MaxDocs)}

Configs == [mongodb_types : BOOLEAN, parse_field_as_map : {{}, {<<"users", "meta">>}}]

(* ----------------------- parse_collections helpers --------------------- *)

RECURSIVE filter_map_aborts(_)
\* A drain of the cursor that stops at the first record that fails to decode.
filter_map_aborts(cursor) ==
    IF cursor = <<>> \/ ~Head(cursor).ok THEN <<>>
    ELSE <<Head(cursor).doc>> \o filter_map_aborts(Tail(cursor))

\* cursor.filter_map(..).collect(): the decoded documents, in stream order.
RECURSIVE filter_map(_)
filter_map(cursor) ==
    IF cursor = <<>> THEN <<>>
    ELSE IF Head(cursor).ok THEN <<Head(cursor).doc>> \o filter_map(Tail(cursor))
    ELSE filter_map(Tail(cursor))

\* std::mem::size_of::<Document>(): size_of_val of a &Document is the size of
\* the Document handle, the same for every document.
SizeOfDocument == 88

size_of_val(b) == SizeOfDocument

\* One insertion of the stable sort under the key Reverse(size_of_val(b)).
InsertStable(sorted, d) ==
    LET n == Cardinality({i \in DOMAIN sorted : size_of_val(sorted[i]) >= size_of_val(d)})
    IN  SubSeq(sorted, 1, n) \o <<d>> \o SubSeq(sorted, n + 1, Len(sorted))

RECURSIVE sort_by_key(_)
\* documents.sort_by_key(|b| Reverse(size_of_val(b))): stable, largest key first.
sort_by_key(docs) ==
    IF docs = <<>> THEN <<>>
    ELSE InsertStable(sort_by_key(SubSeq(docs, 1, Len(docs) - 1)), docs[Len(docs)])

(* ------------------------ process_document helpers --------------------- *)

\* The descriptor process_document computes for one field before merging.
Candidate(c, field) ==
    IF ParseAsMap(c, field[1]) \in config.parse_field_as_map
    THEN <<field[1], Map>>
    ELSE convert(field, config.mongodb_types)

\* First element of a BTreeSet<String> in iteration order.
First(names) ==
    FieldOrder[CHOOSE i \in DOMAIN FieldOrder :
                  /\ FieldOrder[i] \in names
                  /\ \A j \in 1..(i - 1) : FieldOrder[j] \notin names]

\* A remove that leaves the snapshot as it is.
remove_nothing(names, name) == names

\* orig_field_names.remove(&field_name.0).
remove(names, name) == names \ {name}

\* A collect that keeps only the entry of the worker that finished last.
collect_last(acc, collection, data) == {[k |-> collection, t |-> data]}

\* collect() into the BTreeMap of CollectionStruct: one entry per collection name.
collect(acc, collection, data) == Insert(acc, collection, data)

\* Where the worker is once the current document is folded.
AfterDocument(c) ==
    IF doc_idx[c] < Len(documents[c]) THEN "fold" ELSE "finish"

(* ------------------------------ state ---------------------------------- *)

Init ==
    /\ config \in Configs
    /\ db \in Databases
    /\ pc = [c \in Collections |-> "find"]
    /\ collection_fields = [c \in Collections |-> {}]
    /\ documents = [c \in Collections |-> <<>>]
    /\ doc_idx = [c \in Collections |-> 1]
    /\ field_idx = [c \in Collections |-> 1]
    /\ orig_field_names = [c \in Collections |-> {}]
    /\ new_types = [c \in Collections |-> Undefined]
    /\ held = [c \in Collections |-> FALSE]
    /\ before = [c \in Collections |-> {}]
    /\ set = {}
    /\ operands = <<Undefined, Undefined, Undefined>>
    /\ merged = {}

\* find() fails: the error is logged and the closure returns.
FindErr(c) ==
    /\ pc[c] = "find"
    /\ ~db[c].ok
    /\ pc' = [pc EXCEPT ![c] = "finish"]
    /\ UNCHANGED <<lattice, config, db, collection_fields, documents, doc_idx, field_idx,
                   orig_field_names, new_types, held, before, set>>

\* find() succeeds: the cursor is drained into `documents`, which is sorted.
FindOk(c) ==
    /\ pc[c] = "find"
    /\ db[c].ok
    /\ documents' = [documents EXCEPT ![c] = sort_by_key(filter_map(db[c].cursor))]
    /\ pc' = [pc EXCEPT ![c] = IF filter_map(db[c].cursor) = <<>> THEN "finish" ELSE "fold"]
    /\ UNCHANGED <<lattice, config, db, collection_fields, doc_idx, field_idx,
                   orig_field_names, new_types, held, before, set>>

\* process_document, first statement: the known field names are copied
\* under the lock, which is released at the end of the statement.
Snapshot(c) ==
    /\ pc[c] = "fold"
    /\ ~held[c]
    /\ orig_field_names' = [orig_field_names EXCEPT ![c] = Keys(collection_fields[c])]
    /\ before' = [before EXCEPT ![c] = collection_fields[c]]
    /\ field_idx' = [field_idx EXCEPT ![c] = 1]
    /\ pc' = [pc EXCEPT ![c] =
                IF documents[c][doc_idx[c]] # <<>> THEN "field"
                ELSE IF collection_fields[c] # {} THEN "undef"
                ELSE AfterDocument(c)]
    /\ doc_idx' = [doc_idx EXCEPT ![c] =
                IF documents[c][doc_idx[c]] = <<>> /\ collection_fields[c] = {}
                THEN @ + 1 ELSE @]
    /\ UNCHANGED <<lattice, config, db, collection_fields, documents, new_types, held, set>>

\* Field loop, `if let Some(orig_types) = ...lock()...get(..)`: the candidate
\* is merged with the stored descriptor while the guard is alive.
GetMerge(c) ==
    /\ pc[c] = "field"
    /\ ~held[c]
    /\ LET cand == Candidate(c, documents[c][doc_idx[c]][field_idx[c]])
           m == collection_fields[c]
       IN  new_types' = [new_types EXCEPT ![c] =
                            IF cand[1] \in Keys(m) THEN merge(Get(m, cand[1]), cand[2])
                            ELSE cand[2]]
    /\ held' = [held EXCEPT ![c] = TRUE]
    /\ pc' = [pc EXCEPT ![c] = "field_unlock"]
    /\ UNCHANGED <<lattice, config, db, collection_fields, documents, doc_idx, field_idx,
                   orig_field_names, before, set>>

\* An `if let` whose guard is bound to a name and outlives the statement.
EndIfLet_keeps_guard(c) ==
    /\ pc[c] = "field_unlock"
    /\ pc' = [pc EXCEPT ![c] = "field_insert"]
    /\ UNCHANGED <<lattice, config, db, collection_fields, documents, doc_idx, field_idx,
                   orig_field_names, new_types, held, before, set>>

\* End of the `if let` statement: its MutexGuard temporary is dropped.
EndIfLet(c) ==
    /\ pc[c] = "field_unlock"
    /\ held' = [held EXCEPT ![c] = FALSE]
    /\ pc' = [pc EXCEPT ![c] = "field_insert"]
    /\ UNCHANGED <<lattice, config, db, collection_fields, documents, doc_idx, field_idx,
                   orig_field_names, new_types, before, set>>

\* Field loop, lock().insert(..) and orig_field_names.remove(..).
InsertField(c) ==
    /\ pc[c] = "field_insert"
    /\ ~held[c]
    /\ LET doc == documents[c][doc_idx[c]]
           name == doc[field_idx[c]][1]
           rest == remove(orig_field_names[c], name)
           last == field_idx[c] = Len(doc)
       IN  /\ collection_fields' = [collection_fields EXCEPT ![c] =
                                        Insert(@, name, new_types[c])]
           /\ orig_field_names' = [orig_field_names EXCEPT ![c] = rest]
           /\ field_idx' = [field_idx EXCEPT ![c] = @ + 1]
           /\ pc' = [pc EXCEPT ![c] =
                        IF ~last THEN "field"
                        ELSE IF rest # {} THEN "undef"
                        ELSE AfterDocument(c)]
           /\ doc_idx' = [doc_idx EXCEPT ![c] = IF last /\ rest = {} THEN @ + 1 ELSE @]
    /\ new_types' = [new_types EXCEPT ![c] = Undefined]
    /\ UNCHANGED <<lattice, config, db, documents, held, before, set>>

\* Loop over the names left in the snapshot: Undefined is merged with the
\* stored descriptor while the guard is alive.
UndefGetMerge(c) ==
    /\ pc[c] = "undef"
    /\ ~held[c]
    /\ LET name == First(orig_field_names[c])
           m == collection_fields[c]
       IN  new_types' = [new_types EXCEPT ![c] =
                            IF name \in Keys(m) THEN merge(Get(m, name), Undefined)
                            ELSE Undefined]
    /\ held' = [held EXCEPT ![c] = TRUE]
    /\ pc' = [pc EXCEPT ![c] = "undef_unlock"]
    /\ UNCHANGED <<lattice, config, db, collection_fields, documents, doc_idx, field_idx,
                   orig_field_names, before, set>>

\* End of the second `if let` statement: its MutexGuard temporary is dropped.
UndefEndIfLet(c) ==
    /\ pc[c] = "undef_unlock"
    /\ held' = [held EXCEPT ![c] = FALSE]
    /\ pc' = [pc EXCEPT ![c] = "undef_insert"]
    /\ UNCHANGED <<lattice, config, db, collection_fields, documents, doc_idx, field_idx,
                   orig_field_names, new_types, before, set>>

\* Loop over the names left in the snapshot, lock().insert(..).
InsertUndef(c) ==
    /\ pc[c] = "undef_insert"
    /\ ~held[c]
    /\ LET name == First(orig_field_names[c])
           rest == orig_field_names[c] \ {name}
       IN  /\ collection_fields' = [collection_fields EXCEPT ![c] =
                                        Insert(@, name, new_types[c])]
           /\ orig_field_names' = [orig_field_names EXCEPT ![c] = rest]
           /\ pc' = [pc EXCEPT ![c] = IF rest # {} THEN "undef" ELSE AfterDocument(c)]
           /\ doc_idx' = [doc_idx EXCEPT ![c] = IF rest = {} THEN @ + 1 ELSE @]
    /\ new_types' = [new_types EXCEPT ![c] = Undefined]
    /\ UNCHANGED <<lattice, config, db, documents, field_idx, held, before, set>>

\* collection_fields.into_inner(): the closure returns Some((name, data)),
\* which collect() puts into the resulting map.
IntoInner(c) ==
    /\ pc[c] = "finish"
    /\ ~held[c]
    /\ set' = collect(set, c, collection_fields[c])
    /\ pc' = [pc EXCEPT ![c] = "done"]
    /\ UNCHANGED <<lattice, config, db, collection_fields, documents, doc_idx, field_idx,
                   orig_field_names, new_types, held, before>>

Next ==
    \E c \in Collections :
        \/ FindErr(c)
        \/ FindOk(c)
        \/ Snapshot(c)
        \/ GetMerge(c)
        \/ EndIfLet(c)
        \/ InsertField(c)
        \/ UndefGetMerge(c)
        \/ UndefEndIfLet(c)
        \/ InsertUndef(c)
        \/ IntoInner(c)

Spec == Init /\ [][Next]_vars

\* One step of the worker of c.
Step(c) ==
    \/ FindErr(c)
    \/ FindOk(c)
    \/ Snapshot(c)
    \/ GetMerge(c)
    \/ EndIfLet(c)
    \/ InsertField(c)
    \/ UndefGetMerge(c)
    \/ UndefEndIfLet(c)
    \/ InsertUndef(c)
    \/ IntoInner(c)

\* parse_collections returns when every worker has returned: a worker that
\* can take a step is not left waiting forever.

(* ------------- streams of documents with undefined values -------------- *)

\* A document whose values are Bson::Undefined and an empty array.
D5 == << <<"age", Bson("Undefined")>>, <<"tags", BsonArray(<<>>)>> >>

UndefinedPool == {D1, D2, D5}

\* The databases whose records are decode errors or documents of `pool`.
DatabasesOver(pool) ==
    LET results == {[ok |-> TRUE, doc |-> d] : d \in pool} \cup
                   {[ok |-> FALSE, doc |-> <<>>]}
        finds(n) == {[ok |-> FALSE, cursor |-> <<>>]} \cup
                    {[ok |-> TRUE, cursor |-> s] :
                        s \in UNION {[1..k -> results] : k \in 0..n}}
    IN  UNION {{[c \in Collections |-> IF c = "users" THEN u ELSE l] :
                    l \in finds(MaxDocs - Len(u.cursor))} :
               u \in finds(MaxDocs)}

\* The state parse_collections starts in, for a config of `configs` and a
\* database over `pool`.
InitOver(configs, pool) ==
    /\ config \in configs
    /\ db \in DatabasesOver(pool)
    /\ pc = [c \in Collections |-> "find"]
    /\ collection_fields = [c \in Collections |-> {}]
    /\ documents = [c \in Collections |-> <<>>]
    /\ doc_idx = [c \in Collections |-> 1]
    /\ field_idx = [c \in Collections |-> 1]
    /\ orig_field_names = [c \in Collections |-> {}]
    /\ new_types = [c \in Collections |-> Undefined]
    /\ held = [c \in Collections |-> FALSE]
    /\ before = [c \in Collections |-> {}]
    /\ set = {}
    /\ operands = <<Undefined, Undefined, Undefined>>
    /\ merged = {}

UndefinedInit == InitOver(Configs, UndefinedPool)

UndefinedSpec == UndefinedInit /\ [][Next]_vars

(* -------------------- workers that are scheduled ----------------------- *)

\* parse_collections returns when every worker has returned: a worker that
\* can take a step is not left waiting forever.
Fairness == \A c \in Collections : WF_vars(Step(c))

FairSpec == Spec /\ Fairness

\* Documents that take a fold through its field loop and its absent-field loop.
LoopPool == {D1, D3}

LoopInit == InitOver({[mongodb_types |-> FALSE, parse_field_as_map |-> {}]}, LoopPool)

FairLoopSpec == LoopInit /\ [][Next]_vars /\ Fairness

(* ------------------- the type lattice on its own ----------------------- *)

\* Non-Union descriptors: scalars, an Array over a Union, two Objects of
\* different shape.
TypeBase == {Number, String, Undefined,
             Array(Union({Number, String})),
             Object({[k |-> "k", t |-> Number]}),
             Object({[k |-> "k", t |-> String]})}

\* Unions as merge and from_iter build them: two or more members, none a Union.
WellFormedUnions == {Union(s) : s \in {u \in SUBSET TypeBase : Cardinality(u) >= 2}}

Descriptors == TypeBase \cup WellFormedUnions

LatticeInit ==
    /\ operands \in Descriptors \X Descriptors \X Descriptors
    /\ merged = {}
    /\ config = [mongodb_types |-> FALSE, parse_field_as_map |-> {}]
    /\ db = [c \in Collections |-> [ok |-> FALSE, cursor |-> <<>>]]
    /\ pc = [c \in Collections |-> "done"]
    /\ collection_fields = [c \in Collections |-> {}]
    /\ documents = [c \in Collections |-> <<>>]
    /\ doc_idx = [c \in Collections |-> 1]
    /\ field_idx = [c \in Collections |-> 1]
    /\ orig_field_names = [c \in Collections |-> {}]
    /\ new_types = [c \in Collections |-> Undefined]
    /\ held = [c \in Collections |-> FALSE]
    /\ before = [c \in Collections |-> {}]
    /\ set = {}

\* merge applied to the operands a, b, c in every grouping the laws mention.
ApplyMerge ==
    /\ merged = {}
    /\ LET a == operands[1]
           b == operands[2]
           c == operands[3]
       IN  merged' = {[k |-> "ab", t |-> merge(a, b)],
                      [k |-> "ba", t |-> merge(b, a)],
                      [k |-> "aa", t |-> merge(a, a)],
                      [k |-> "ab_c", t |-> merge(merge(a, b), c)],
                      [k |-> "a_bc", t |-> merge(a, merge(b, c))]}
    /\ UNCHANGED <<operands, config, db, pc, collection_fields, documents, doc_idx,
                   field_idx, orig_field_names, new_types, held, before, set>>

LatticeNext == ApplyMerge

LatticeSpec == LatticeInit /\ [][LatticeNext]_vars

(* ------------------------ vocabulary of the claims --------------------- *)

\* The alternatives of a descriptor: the members of a Union, else itself.
Alternatives(t) == IF t.tag = "Union" THEN t.elems ELSE {t}

FieldsOf(document) == {document[i][1] : i \in DOMAIN document}

\* The worker of c has just finished folding a document.
Folded(c) == pc[c] \in {"fold", "finish", "done"} /\ doc_idx[c] > 1

\* The document whose fold the worker of c finished last.
LastDocument(c) == documents[c][doc_idx[c] - 1]

\* The records of a cursor that decode, in stream order.
Decoded(cursor) ==
    LET oks == {i \in DOMAIN cursor : cursor[i].ok}
        nth(n) == CHOOSE i \in oks : Cardinality({j \in oks : j < i}) = n - 1
    IN  [n \in 1..Cardinality(oks) |-> cursor[nth(n)].doc]

\* One document folded into a schema, as a whole: fields of the document are
\* merged or inserted, known fields the document lacks are merged with Undefined.
FoldOne(c, schema, document) ==
    {[k |-> document[i][1],
      t |-> IF document[i][1] \in Keys(schema)
            THEN merge(Get(schema, document[i][1]), Candidate(c, document[i])[2])
            ELSE Candidate(c, document[i])[2]] : i \in DOMAIN document}
    \cup
    {[k |-> e.k, t |-> merge(e.t, Undefined)] :
        e \in {x \in schema : x.k \notin FieldsOf(document)}}

RECURSIVE FoldAll(_, _)
\* The documents folded one after the other into an empty schema.
FoldAll(c, docs) ==
    IF docs = <<>> THEN {}
    ELSE FoldOne(c, FoldAll(c, SubSeq(docs, 1, Len(docs) - 1)), docs[Len(docs)])

AllDone == \A c \in Collections : pc[c] = "done"

RECURSIVE WellFormed(_)
\* No Union anywhere in t has fewer than 2 members or a Union as a member.
WellFormed(t) ==
    /\ t.tag = "Union" =>
          /\ Cardinality(t.elems) >= 2
          /\ \A e \in t.elems : e.tag # "Union"
    /\ \A e \in t.elems : WellFormed(e)
    /\ \A e \in t.fields : WellFormed(e.t)

(* -------------------------------- C1 ----------------------------------- *)

UsersStream == <<[ok |-> TRUE, doc |-> D1], [ok |-> TRUE, doc |-> D2],
                 [ok |-> TRUE, doc |-> D3]>>

\* C1: once `users`, whose stream yields {name,age}, {name}, {name,age,active}
\* in this order with extended types off, is processed, its schema is
\* {name: String, age: Number | Undefined, active: Boolean | Undefined}.
C1_UsersSchema ==
    (/\ pc["users"] = "done"
     /\ db["users"] = [ok |-> TRUE, cursor |-> UsersStream]
     /\ ~config.mongodb_types)
    => Get(set, "users") = {[k |-> "name", t |-> String],
                            [k |-> "age", t |-> Union({Number, Undefined})],
                            [k |-> "active", t |-> Union({Boolean, Undefined})]}

(* -------------------------------- C2 ----------------------------------- *)

\* C2: after a document is folded into a schema S, every field of S the
\* document lacks holds merge(old, Undefined), every field of the document
\* holds merge(old, candidate) if it was in S and the candidate itself if it
\* was new, and the schema has no other field.
C2_FoldResult ==
    \A c \in Collections :
        Folded(c) =>
            LET S == before[c]
                D == LastDocument(c)
                R == collection_fields[c]
            IN  /\ Keys(R) = Keys(S) \cup FieldsOf(D)
                /\ Cardinality(R) = Cardinality(Keys(R))
                /\ \A f \in Keys(S) \ FieldsOf(D) :
                      Get(R, f) = merge(Get(S, f), Undefined)
                /\ \A i \in DOMAIN D :
                      LET f == D[i][1]
                          t == Candidate(c, D[i])[2]
                      IN  Get(R, f) = IF f \in Keys(S) THEN merge(Get(S, f), t) ELSE t

\* A fold that met a known field the document lacks, a known field the
\* document has, and a new field.
C2_Witness ==
    \E c \in Collections :
        /\ Folded(c)
        /\ Keys(before[c]) \ FieldsOf(LastDocument(c)) # {}
        /\ Keys(before[c]) \cap FieldsOf(LastDocument(c)) # {}
        /\ FieldsOf(LastDocument(c)) \ Keys(before[c]) # {}

(* -------------------------------- C3 ----------------------------------- *)

\* C3: a collection whose find() fails has no entry in the Database Schema.
C3_FetchErrorSkipped ==
    \A c \in Collections : (pc[c] = "done" /\ ~db[c].ok) => c \notin Keys(set)

(* -------------------------------- C4 ----------------------------------- *)

\* C4: merge is commutative, idempotent and associative over scalars, Arrays,
\* Objects and well-formed Unions.
C4_MergeLaws ==
    merged # {} =>
        /\ Get(merged, "ab") = Get(merged, "ba")
        /\ Get(merged, "aa") = operands[1]
        /\ Get(merged, "ab_c") = Get(merged, "a_bc")

\* merge applied to three different operands, a Union, an Object and an Array.
C4_Witness ==
    /\ merged # {}
    /\ operands[1].tag = "Union"
    /\ operands[2].tag = "Object"
    /\ operands[3].tag = "Array"

(* -------------------------------- C5 ----------------------------------- *)

\* C5 as stated: merge(a, a) is not a Union, for every descriptor a.
C5_SelfMergeNeverUnion ==
    merged # {} => Get(merged, "aa").tag # "Union"

\* C5 amended: merge(a, a) is a Union only when a itself is a Union; for every
\* scalar, Array and Object a it is not.
C5_SelfMergeOfNonUnion ==
    merged # {} => (Get(merged, "aa").tag = "Union" <=> operands[1].tag = "Union")

\* merge(a, a) computed for an Object a.
C5_Witness ==
    /\ merged # {}
    /\ operands[1].tag = "Object"

(* -------------------------------- C6 ----------------------------------- *)

\* C6: every Union in every Collection Schema, at any depth, has at least 2
\* distinct members and no Union as a direct member.
C6_UnionsWellFormed ==
    \A c \in Collections : \A e \in collection_fields[c] : WellFormed(e.t)

\* A schema holding a Union at the top level and a Union inside an Array.
C6_Witness ==
    \E c \in Collections :
        /\ \E e \in collection_fields[c] : e.t.tag = "Union"
        /\ \E e \in collection_fields[c] :
              e.t.tag = "Array" /\ \E x \in e.t.elems : x.tag = "Union"

(* -------------------------------- C7 ----------------------------------- *)

\* C7: no step removes a field name from a Collection Schema, and every
\* field's alternatives after the step include those before it.
C7_SchemaOnlyGrows ==
    [][\A c \in Collections :
          /\ Keys(collection_fields[c]) \subseteq Keys(collection_fields'[c])
          /\ \A f \in Keys(collection_fields[c]) :
                Alternatives(Get(collection_fields[c], f))
                    \subseteq Alternatives(Get(collection_fields'[c], f))]_vars

\* A fold has widened a known field and added a new one.
C7_Witness ==
    \E c \in Collections :
        /\ Keys(before[c]) # Keys(collection_fields[c])
        /\ \E f \in Keys(before[c]) :
              Alternatives(Get(before[c], f)) # Alternatives(Get(collection_fields[c], f))

(* -------------------------------- C8 ----------------------------------- *)

\* C8: the schema a stream produces is the schema of the stream without its
\* undecodable records, the records after a failure included.
C8_DecodeErrorsSkipped ==
    \A c \in Collections :
        (pc[c] = "done" /\ db[c].ok) =>
            collection_fields[c] = FoldAll(c, Decoded(db[c].cursor))

\* A processed stream with an undecodable record between two documents.
C8_Witness ==
    \E c \in Collections :
        /\ pc[c] = "done"
        /\ Len(db[c].cursor) = 3
        /\ db[c].cursor[1].ok
        /\ ~db[c].cursor[2].ok
        /\ db[c].cursor[3].ok

(* -------------------------------- C9 ----------------------------------- *)

HoldsDocument(document, f) ==
    \E i \in DOMAIN document : document[i][1] = f /\ document[i][2].kind = "Document"

\* C9: a fold of a document whose field f holds a nested object leaves Map and
\* no Object among the alternatives of f where (c, f) is overridden, and
\* leaves the Object among them in any other collection.
C9_MapOverride ==
    \A c \in Collections : \A i \in DOMAIN FieldOrder :
        LET f == FieldOrder[i] IN
        (Folded(c) /\ HoldsDocument(LastDocument(c), f)) =>
            LET alts == Alternatives(Get(collection_fields[c], f))
            IN  IF <<c, f>> \in config.parse_field_as_map
                THEN Map \in alts /\ \A t \in alts : t.tag # "Object"
                ELSE Map \notin alts /\ \E t \in alts : t.tag = "Object"

\* With (users, meta) overridden, both collections have folded a document
\* whose meta is a nested object.
C9_Witness ==
    /\ <<"users", "meta">> \in config.parse_field_as_map
    /\ \A c \in Collections : Folded(c) /\ HoldsDocument(LastDocument(c), "meta")

(* -------------------------------- C10 ---------------------------------- *)

\* The variables of one collection's worker.
Worker(c) == <<pc[c], collection_fields[c], documents[c], doc_idx[c], field_idx[c],
               orig_field_names[c], new_types[c], held[c], before[c]>>

\* C10: whatever the interleaving of the workers, the Database Schema is the
\* same function of the collections and their streams, and no step of one
\* worker touches the state of another collection.
C10_OrderIndependent ==
    /\ [](AllDone =>
            set = {[k |-> c, t |-> FoldAll(c, Decoded(db[c].cursor))] : c \in Collections})
    /\ [][\E c \in Collections :
            \A d \in Collections \ {c} : Worker(d)' = Worker(d)]_vars

\* Both collections processed, each with a schema of its own.
C10_Witness ==
    /\ AllDone
    /\ \A c \in Collections : collection_fields[c] # {}
    /\ collection_fields["users"] # collection_fields["logs"]

(* -------------------------------- C11 ---------------------------------- *)

\* The worker of c is inside process_document, past the snapshot.
MidFold(c) == pc[c] \in {"field", "field_unlock", "field_insert",
                         "undef", "undef_unlock", "undef_insert"}

\* The fields of the current document that the fold has already stored.
StoredFields(c) ==
    LET doc == documents[c][doc_idx[c]]
    IN  {doc[i][1] : i \in {j \in DOMAIN doc : j < field_idx[c]}}

FoldedDocuments(c) == SubSeq(documents[c], 1, doc_idx[c] - 1)

\* C12: after d1..dn are folded in that order, the schema has the fields of
\* d1..dn, and a field f has Undefined among its alternatives exactly when a
\* document after the first one that contains f lacks f.
C12_OptionalIffAbsentLater ==
    \A c \in Collections :
        Folded(c) =>
            LET docs == FoldedDocuments(c)
                has(i, f) == f \in FieldsOf(docs[i])
            IN  /\ {e.k : e \in collection_fields[c]} =
                       UNION {FieldsOf(docs[i]) : i \in DOMAIN docs}
                /\ \A e \in collection_fields[c] :
                      Undefined \in Alternatives(e.t) <=>
                          \E i \in DOMAIN docs : \E j \in DOMAIN docs :
                              i < j /\ has(i, e.k) /\ ~has(j, e.k)

\* Three documents folded: the first lacks `age`, the second brings it with a
\* value of kind Undefined, the third lacks it again.
C12_Witness ==
    \E c \in Collections :
        /\ Folded(c)
        /\ FoldedDocuments(c) = <<D2, D5, D2>>

(* -------------------------------- C13 ---------------------------------- *)

\* The worker of c has drained and sorted its documents.
Sorted(c) == db[c].ok /\ pc[c] # "find"

\* C13: the documents are folded by descending size: a document with more
\* fields than another one comes before it, whatever the stream order.
C13_LargerDocumentsFirst ==
    \A c \in Collections :
        Sorted(c) =>
            \A i \in DOMAIN documents[c] : \A j \in DOMAIN documents[c] :
                Len(documents[c][i]) > Len(documents[c][j]) => i < j

(* -------------------------------- C14 ---------------------------------- *)

\* The worker of c is at a statement that locks collection_fields.
AtLock(c) == pc[c] \in {"fold", "field", "field_insert", "undef", "undef_insert"}

\* The worker of c has folded its whole stream and handed its schema over.
Completed(c) ==
    /\ pc[c] = "done"
    /\ [k |-> c, t |-> collection_fields[c]] \in set
    /\ db[c].ok =>
          /\ Len(documents[c]) = Cardinality({i \in DOMAIN db[c].cursor : db[c].cursor[i].ok})
          /\ doc_idx[c] = Len(documents[c]) + 1

\* C14: no worker is at a lock() while a guard of its Mutex is alive, and
\* every worker eventually completes: its whole stream is folded and its
\* schema is in the Database Schema.
C14_ProcessingCompletes ==
    /\ [](\A c \in Collections : AtLock(c) => ~held[c])
    /\ \A c \in Collections : <>Completed(c)

\* A worker that completed after three records, one of them undecodable, and
\* went through the absent-field loop on the way.
C14_Witness ==
    \E c \in Collections :
        /\ Completed(c)
        /\ Len(db[c].cursor) = 3
        /\ Len(documents[c]) = 2
        /\ \E e \in collection_fields[c] : Undefined \in Alternatives(e.t)

====
